---- MODULE Spec2Model ----
(***************************************************************************)
(* A model of src/index.js: the pool holder (Dbc.Pooler), the scoped       *)
(* connection wrapper (Dbc.prototype.withConnection / Connection.run),     *)
(* the transaction runner (Connection.doTransaction) and the validating    *)
(* update builders (Connection.updateOne / updateOneByFields).             *)
(*                                                                         *)
(* The pool and the driver (mysql2) are the environment: a checkout hands  *)
(* out a session that is not checked out, or fails; a statement succeeds   *)
(* or fails.  Every await of the source is a step boundary.                *)
(*                                                                         *)
(* Spec     concurrent invocations of with-connection wrappers             *)
(* SpecTx   one wrapped function that runs doTransaction on its Connection *)
(* SpecCrud the update builders on one Connection                          *)
(***************************************************************************)
EXTENDS Integers, Sequences, FiniteSets

\* ---------------------------------------------------------------- bounds
NumInv == 2        \* concurrent invocations of a with-connection wrapper
NumPools == 2      \* pools that init() may create in one run
PoolSize == 2      \* sessions of one pool (its connectionLimit)
MaxStmts == 1      \* plain statements one invocation may issue
MaxFields == 2     \* longest field, value, where-field and where-value list
MaxRows == 3       \* most rows of one insertMany call or of one result set
MaxObjects == 2    \* most objects of one insertManyObjects call

Invs == 1..NumInv
Pools == 1..NumPools
Sessions == 1..PoolSize

Null == 0                 \* Pooler.pool before init (index.js:250)
NoConn == <<0, 0>>        \* no Connection (the local `conn` is not bound)
Pending == [kind |-> "pending", val |-> "none"]
NotRun == [kind |-> "notrun", val |-> "none"]

Resolved(v) == [kind |-> "resolve", val |-> v]
Rejected(e) == [kind |-> "reject", val |-> e]

\* The errors a unit of work may raise by itself.
UowErrors == {"RollbackError", "AppError"}

VARIABLES
  pool,        \* Pooler.pool: Null or the pool set last
  created,     \* pools created so far by init(); the newest is `created`
  checkedOut,  \* pool side: checkedOut[p] = the sessions of p handed out
  slog,        \* slog[p][s]: the statements sent on session s of pool p
               \* since the pool handed it out, in order
  pc,          \* where each invocation of the wrapper stands
  req,         \* the pool whose getConnection() the invocation awaits
  conn,        \* the session wrapped by the invocation's Connection
  calls,       \* how often the wrapped function was invoked
  rel,         \* how often the invocation called release()
  outcome,     \* how the wrapped function, then the wrapper, settled
  uowRes,      \* doTransaction: how the unit of work ended
  caught,      \* doTransaction: the error its catch block caught
  txRes,       \* doTransaction: how its promise settled
  call,        \* query builders: the method called and its arguments
  ret,         \* query builders: how the call ended
  sent         \* query builders: the statements the call sent to the
               \* session, each with its argument list

runVars == <<pool, created, checkedOut, slog, pc, req, conn, calls, rel,
             outcome>>
txVars == <<uowRes, caught, txRes>>
crudVars == <<call, ret, sent>>
vars == <<runVars, txVars, crudVars>>

\* ----------------------------------------------------------- the session
\* Mutant: every Connection wraps one shared session of its pool.
SessionShared(i) == IF conn[i] = NoConn THEN NoConn ELSE <<conn[i][1], 1>>

\* this.conn of the invocation's Connection (constructor)
Session(i) == conn[i]

LogOf(c) == IF c = NoConn THEN <<>> ELSE slog[c[1]][c[2]]

\* Connection.query -> this.conn.query(sql, args): the statement goes to
\* the session of this Connection; the driver answers ok or fails.
Query(i, sql, ok) ==
  slog' = [slog EXCEPT ![Session(i)[1]][Session(i)[2]] =
                          Append(@, [k |-> sql, by |-> i, ok |-> ok])]

\* The positions of the log of i's session that hold i's statements `sql`.
At(i, sql) ==
  {n \in DOMAIN LogOf(conn[i]) :
     LogOf(conn[i])[n].k = sql /\ LogOf(conn[i])[n].by = i}

N(i, sql) == Cardinality(At(i, sql))

\* ----------------------------------------------------------- pool holder
\* Mutant: getPool() without its check.
GetPoolUnchecked == [err |-> "none", pool |-> pool]

GetPool ==
  IF pool = Null THEN [err |-> "NotConnected", pool |-> Null]
                 ELSE [err |-> "none", pool |-> pool]

SetPool(p) == pool' = p

\* Dbc.prototype.init: a new pool is created and installed.
DbcInit ==
  /\ created < NumPools
  /\ created' = created + 1
  /\ SetPool(created + 1)
  /\ UNCHANGED <<checkedOut, slog, pc, req, conn, calls, rel, outcome,
                 txVars, crudVars>>

\* ------------------------------------------------------ with-connection
\* The wrapper is called: Connection.run -> Connection.new ->
\* pooler.getPool().getConnection(), up to the first await.  A throw of
\* getPool() rejects the promise of the async function; so would calling
\* getConnection on null.
Invoke(i) ==
  /\ pc[i] = "idle"
  /\ LET r == GetPool IN
       IF r.err # "none"
         THEN /\ outcome' = [outcome EXCEPT ![i] = Rejected(r.err)]
              /\ pc' = [pc EXCEPT ![i] = "done"]
              /\ UNCHANGED req
         ELSE IF r.pool = Null
           THEN /\ outcome' = [outcome EXCEPT ![i] = Rejected("TypeError")]
                /\ pc' = [pc EXCEPT ![i] = "done"]
                /\ UNCHANGED req
           ELSE /\ req' = [req EXCEPT ![i] = r.pool]
                /\ pc' = [pc EXCEPT ![i] = "acquiring"]
                /\ UNCHANGED outcome
  /\ UNCHANGED <<pool, created, checkedOut, slog, conn, calls, rel, txVars,
                 crudVars>>

\* The pool resolves getConnection() with a session it has not handed out;
\* `new Connection(conn)` wraps it.
Checkout(i, s) ==
  /\ pc[i] = "acquiring"
  /\ s \notin checkedOut[req[i]]
  /\ checkedOut' = [checkedOut EXCEPT ![req[i]] = @ \cup {s}]
  /\ slog' = [slog EXCEPT ![req[i]][s] = <<>>]
  /\ conn' = [conn EXCEPT ![i] = <<req[i], s>>]
  /\ req' = [req EXCEPT ![i] = Null]
  /\ pc' = [pc EXCEPT ![i] = "acquired"]
  /\ UNCHANGED <<pool, created, calls, rel, outcome, txVars, crudVars>>

\* Mutant: Connection.new inside the try block, so that the finally block
\* calls release() on a Connection that was never made.
CheckoutFailInTry(i) ==
  /\ pc[i] = "acquiring"
  /\ outcome' = [outcome EXCEPT ![i] = Rejected("TypeError")]
  /\ rel' = [rel EXCEPT ![i] = @ + 1]
  /\ req' = [req EXCEPT ![i] = Null]
  /\ pc' = [pc EXCEPT ![i] = "done"]
  /\ UNCHANGED <<pool, created, checkedOut, slog, conn, calls, txVars,
                 crudVars>>

\* The pool rejects getConnection() (queue limit, connect timeout).
CheckoutFail(i) ==
  /\ pc[i] = "acquiring"
  /\ outcome' = [outcome EXCEPT ![i] = Rejected("PoolError")]
  /\ req' = [req EXCEPT ![i] = Null]
  /\ pc' = [pc EXCEPT ![i] = "done"]
  /\ UNCHANGED <<pool, created, checkedOut, slog, conn, calls, rel, txVars,
                 crudVars>>

\* Mutant: release() that does not reach the pool.
ConnReleaseLost(i) ==
  /\ rel' = [rel EXCEPT ![i] = @ + 1]
  /\ UNCHANGED <<checkedOut, slog>>

\* Mutant: release() hands the session to the pool the holder has now.
ConnReleaseToCurrentPool(i) ==
  /\ checkedOut' = [checkedOut EXCEPT ![pool] = @ \ {Session(i)[2]}]
  /\ slog' = [slog EXCEPT ![Session(i)[1]][Session(i)[2]] = <<>>]
  /\ rel' = [rel EXCEPT ![i] = @ + 1]

\* Connection.release -> this.conn.release(): the pool takes the session
\* back.
ConnRelease(i) ==
  /\ checkedOut' = [checkedOut EXCEPT ![Session(i)[1]] = @ \ {Session(i)[2]}]
  /\ slog' = [slog EXCEPT ![Session(i)[1]][Session(i)[2]] = <<>>]
  /\ rel' = [rel EXCEPT ![i] = @ + 1]

\* Mutant: release() after the await instead of in a finally block.
FinallyOnSuccessOnly(i) ==
  /\ IF pc[i] = "finally" /\ outcome[i].kind = "resolve"
       THEN ConnRelease(i)
       ELSE UNCHANGED <<checkedOut, slog, rel>>
  /\ conn' = [conn EXCEPT ![i] = NoConn]
  /\ pc' = [pc EXCEPT ![i] = "done"]

\* The finally block of Connection.run; the local `conn` goes out of scope.
Finally(i) ==
  /\ ConnRelease(i)
  /\ conn' = [conn EXCEPT ![i] = NoConn]
  /\ pc' = [pc EXCEPT ![i] = "done"]

\* Connection.run resumes with the session: func.apply(conn, args).  The
\* function either throws synchronously (the finally block runs at once) or
\* returns its promise, which Connection.run awaits.
RunFn(i, throws) ==
  /\ pc[i] = "acquired"
  /\ calls' = [calls EXCEPT ![i] = @ + 1]
  /\ IF throws
       THEN /\ outcome' = [outcome EXCEPT ![i] = Rejected("ThrownError")]
            /\ Finally(i)
       ELSE /\ pc' = [pc EXCEPT ![i] = "fn"]
            /\ UNCHANGED <<checkedOut, slog, conn, rel, outcome>>
  /\ UNCHANGED <<pool, created, req, txVars, crudVars>>

\* The wrapped function issues a plain statement through this.query and
\* awaits it.  (A function whose statement fails and that rejects with the
\* driver's error is FnSettle with a rejection.)
FnStmt(i) ==
  /\ pc[i] = "fn"
  /\ N(i, "q") < MaxStmts
  /\ Query(i, "q", TRUE)
  /\ UNCHANGED <<pool, created, checkedOut, pc, req, conn, calls, rel,
                 outcome, txVars, crudVars>>

\* The wrapped function's promise settles.
FnSettle(i, o) ==
  /\ pc[i] = "fn"
  /\ outcome' = [outcome EXCEPT ![i] = o]
  /\ pc' = [pc EXCEPT ![i] = "finally"]
  /\ UNCHANGED <<pool, created, checkedOut, slog, req, conn, calls, rel,
                 txVars, crudVars>>

\* Mutant: `return func.apply(conn, args)` without await, so that the
\* finally block runs while the function's promise is pending.
ReleaseEarly(i) ==
  /\ pc[i] \in {"uow", "finally"}
  /\ IF pc[i] = "finally"
       THEN Finally(i)
       ELSE /\ ConnRelease(i)
            /\ UNCHANGED <<conn, pc>>
  /\ UNCHANGED <<pool, created, req, calls, outcome, txVars, crudVars>>

\* Connection.run resumes after `await func.apply(conn, args)`: finally,
\* then the function's result is returned or its error rethrown.
Release(i) ==
  /\ pc[i] = "finally"
  /\ Finally(i)
  /\ UNCHANGED <<pool, created, req, calls, outcome, txVars, crudVars>>

\* ---------------------------------------------------------- transactions
DoBegin(i, ok) == Query(i, "BEGIN", ok)
DoCommit(i, ok) == Query(i, "COMMIT", ok)
DoRollback(i, ok) == Query(i, "ROLLBACK", ok)

IsRollbackError(e) == e = "RollbackError"

\* Mutant: BEGIN inside the try block, so that its failure is caught.
TxBeginInTry(i, ok) ==
  /\ pc[i] = "fn"
  /\ N(i, "BEGIN") = 0
  /\ DoBegin(i, ok)
  /\ IF ok
       THEN /\ pc' = [pc EXCEPT ![i] = "uow"]
            /\ uowRes' = [uowRes EXCEPT ![i] = Pending]
            /\ UNCHANGED caught
       ELSE /\ caught' = [caught EXCEPT ![i] = "DriverError:BEGIN"]
            /\ pc' = [pc EXCEPT ![i] = "rollback"]
            /\ UNCHANGED uowRes
  /\ UNCHANGED <<pool, created, checkedOut, req, conn, calls, rel, outcome,
                 txRes, crudVars>>

\* doTransaction up to the unit of work: `await this.doBegin()` is outside
\* the try block; then fn.call(this).
TxBegin(i, ok) ==
  /\ pc[i] = "fn"
  /\ N(i, "BEGIN") = 0
  /\ DoBegin(i, ok)
  /\ IF ok
       THEN /\ pc' = [pc EXCEPT ![i] = "uow"]
            /\ uowRes' = [uowRes EXCEPT ![i] = Pending]
            /\ UNCHANGED txRes
       ELSE /\ txRes' = [txRes EXCEPT ![i] = Rejected("DriverError:BEGIN")]
            /\ pc' = [pc EXCEPT ![i] = "txdone"]
            /\ UNCHANGED uowRes
  /\ UNCHANGED <<pool, created, checkedOut, req, conn, calls, rel, outcome,
                 caught, crudVars>>

\* The unit of work issues a statement on this Connection and awaits it;
\* when the statement fails, the unit of work handles the error or rejects
\* with it.
UowStmt(i, how) ==
  /\ pc[i] = "uow"
  /\ N(i, "q") < MaxStmts
  /\ Query(i, "q", how = "ok")
  /\ IF how = "raised"
       THEN /\ uowRes' = [uowRes EXCEPT ![i] = Rejected("DriverError:q")]
            /\ caught' = [caught EXCEPT ![i] = "DriverError:q"]
            /\ pc' = [pc EXCEPT ![i] = "rollback"]
       ELSE UNCHANGED <<uowRes, caught, pc>>
  /\ UNCHANGED <<pool, created, checkedOut, req, conn, calls, rel, outcome,
                 txRes, crudVars>>

\* The unit of work completes normally: `res` is bound, COMMIT comes next.
UowReturn(i) ==
  /\ pc[i] = "uow"
  /\ uowRes' = [uowRes EXCEPT ![i] = Resolved("uowval")]
  /\ pc' = [pc EXCEPT ![i] = "commit"]
  /\ UNCHANGED <<pool, created, checkedOut, slog, req, conn, calls, rel,
                 outcome, caught, txRes, crudVars>>

\* The unit of work throws or rejects: the catch block takes the error.
UowRaise(i, e) ==
  /\ pc[i] = "uow"
  /\ uowRes' = [uowRes EXCEPT ![i] = Rejected(e)]
  /\ caught' = [caught EXCEPT ![i] = e]
  /\ pc' = [pc EXCEPT ![i] = "rollback"]
  /\ UNCHANGED <<pool, created, checkedOut, slog, req, conn, calls, rel,
                 outcome, txRes, crudVars>>

\* Mutant: `return res` without the COMMIT.
TxCommitSkipped(i, ok) ==
  /\ pc[i] = "commit"
  /\ txRes' = [txRes EXCEPT ![i] = Resolved(uowRes[i].val)]
  /\ pc' = [pc EXCEPT ![i] = "txdone"]
  /\ UNCHANGED <<pool, created, checkedOut, slog, req, conn, calls, rel,
                 outcome, uowRes, caught, crudVars>>

\* Mutant: the COMMIT after the try block, so that its failure is not caught.
TxCommitOutsideTry(i, ok) ==
  /\ pc[i] = "commit"
  /\ DoCommit(i, ok)
  /\ txRes' = [txRes EXCEPT ![i] =
                 IF ok THEN Resolved(uowRes[i].val)
                       ELSE Rejected("DriverError:COMMIT")]
  /\ pc' = [pc EXCEPT ![i] = "txdone"]
  /\ UNCHANGED <<pool, created, checkedOut, req, conn, calls, rel, outcome,
                 uowRes, caught, crudVars>>

\* `await this.doCommit(); return res;` inside the try block: a failure of
\* COMMIT is caught by the same catch block.
TxCommit(i, ok) ==
  /\ pc[i] = "commit"
  /\ DoCommit(i, ok)
  /\ IF ok
       THEN /\ txRes' = [txRes EXCEPT ![i] = Resolved(uowRes[i].val)]
            /\ pc' = [pc EXCEPT ![i] = "txdone"]
            /\ UNCHANGED caught
       ELSE /\ caught' = [caught EXCEPT ![i] = "DriverError:COMMIT"]
            /\ pc' = [pc EXCEPT ![i] = "rollback"]
            /\ UNCHANGED txRes
  /\ UNCHANGED <<pool, created, checkedOut, req, conn, calls, rel, outcome,
                 uowRes, crudVars>>

\* The catch block: `await this.doRollback()`, then rethrow unless the
\* error is a RollbackError.  A failure of ROLLBACK leaves the catch block
\* at the await.
TxRollback(i, ok) ==
  /\ pc[i] = "rollback"
  /\ DoRollback(i, ok)
  /\ txRes' = [txRes EXCEPT ![i] =
                 IF ~ok THEN Rejected("DriverError:ROLLBACK")
                 ELSE IF IsRollbackError(caught[i]) THEN Resolved("undefined")
                 ELSE Rejected(caught[i])]
  /\ pc' = [pc EXCEPT ![i] = "txdone"]
  /\ UNCHANGED <<pool, created, checkedOut, req, conn, calls, rel, outcome,
                 uowRes, caught, crudVars>>

\* The wrapped function returns the promise of its doTransaction call.
FnReturnTx(i) ==
  /\ pc[i] = "txdone"
  /\ outcome' = [outcome EXCEPT ![i] = txRes[i]]
  /\ pc' = [pc EXCEPT ![i] = "finally"]
  /\ UNCHANGED <<pool, created, checkedOut, slog, req, conn, calls, rel,
                 txVars, crudVars>>

\* ------------------------------------------------------- specifications
InitRun ==
  /\ pool = Null
  /\ created = 0
  /\ checkedOut = [p \in Pools |-> {}]
  /\ slog = [p \in Pools |-> [s \in Sessions |-> <<>>]]
  /\ pc = [i \in Invs |-> "idle"]
  /\ req = [i \in Invs |-> Null]
  /\ conn = [i \in Invs |-> NoConn]
  /\ calls = [i \in Invs |-> 0]
  /\ rel = [i \in Invs |-> 0]
  /\ outcome = [i \in Invs |-> Pending]

InitTx ==
  /\ uowRes = [i \in Invs |-> NotRun]
  /\ caught = [i \in Invs |-> "none"]
  /\ txRes = [i \in Invs |-> Pending]

InitCrud ==
  /\ call = [op |-> "none"]
  /\ ret = Pending
  /\ sent = <<>>

Init == InitRun /\ InitTx /\ InitCrud

\* Concurrent invocations of with-connection wrappers.
Next ==
  \/ DbcInit
  \/ \E i \in Invs : Invoke(i)
  \/ \E i \in Invs, s \in Sessions : Checkout(i, s)
  \/ \E i \in Invs : CheckoutFail(i)
  \/ \E i \in Invs, t \in BOOLEAN : RunFn(i, t)
  \/ \E i \in Invs : FnStmt(i)
  \/ \E i \in Invs : FnSettle(i, Resolved("fnval"))
  \/ \E i \in Invs : FnSettle(i, Rejected("AppError"))
  \/ \E i \in Invs : Release(i)

Spec == Init /\ [][Next]_vars

\* The invocation that runs the transaction.
T == 1

\* One wrapped function that runs doTransaction and returns its promise.
NextTx ==
  \/ DbcInit
  \/ Invoke(T)
  \/ \E s \in Sessions : Checkout(T, s)
  \/ CheckoutFail(T)
  \/ \E t \in BOOLEAN : RunFn(T, t)
  \/ \E ok \in BOOLEAN : TxBegin(T, ok)
  \/ \E h \in {"ok", "handled", "raised"} : UowStmt(T, h)
  \/ UowReturn(T)
  \/ \E e \in UowErrors : UowRaise(T, e)
  \/ \E ok \in BOOLEAN : TxCommit(T, ok)
  \/ \E ok \in BOOLEAN : TxRollback(T, ok)
  \/ FnReturnTx(T)
  \/ Release(T)

SpecTx == Init /\ [][NextTx]_vars

\* -------------------------------------------------------- query builders
\* SQL text is a sequence of tokens; "?" is a placeholder.
Tables == {"t"}
FieldNames == {"a", "b"}
Vals == {1, 2}
Ids == {7}

SeqsUpTo(S, n) == UNION {[1..k -> S] : k \in 0..n}

RECURSIVE Join(_, _)
\* parts.join(sep), parts a sequence of token sequences
Join(parts, sep) ==
  IF Len(parts) = 0 THEN <<>>
  ELSE IF Len(parts) = 1 THEN parts[1]
  ELSE parts[1] \o <<sep>> \o Join(Tail(parts), sep)

\* fields.map(field => `${field} = ?`)
Assignments(fields) == [n \in DOMAIN fields |-> <<fields[n], "=", "?">>]

Thrown(msg) == [kind |-> "throw", val |-> msg]

\* The errors the driver may reject a statement with.
DriverErrs == {"ER_DUP_ENTRY", "ER_LOCK_DEADLOCK"}

\* What the driver may answer to a statement that returns no rows: a
\* failure, or a result whose first element is the result header.
DriverAnswers ==
  {[ok |-> FALSE, result |-> <<>>, err |-> e] : e \in DriverErrs} \cup
  {[ok |-> TRUE,
    result |-> <<info, "undefined">>,
    err |-> "none"] : info \in {[insertId |-> 0, affectedRows |-> 0],
                                [insertId |-> 5, affectedRows |-> 1]}}

\* The rows of a result set; a row is an object, hence truthy.
RowVals == {"r1", "r2"}

\* What the driver may answer to a SELECT: a failure, or [rows, fields].
SelectAnswers ==
  {[ok |-> FALSE, result |-> <<>>, err |-> e] : e \in DriverErrs} \cup
  {[ok |-> TRUE, result |-> <<rows, "fields">>, err |-> "none"] :
     rows \in SeqsUpTo(RowVals, MaxRows)}

\* getRows(result): the rows
GetRows(result) == result[1]

\* getInfo(result): the result header
GetInfo(result) == result[1]

\* this.conn.query(sql, args): one statement goes to the session; the
\* driver's answer is kept with it.
ConnQuery(sql, args, answer) ==
  sent' = Append(sent, [sql |-> sql, args |-> args, ans |-> answer])

\* Connection.query: the driver's promise is returned as it is.
DoQuery(sql, args, answer) ==
  /\ ConnQuery(sql, args, answer)
  /\ ret' = IF answer.ok THEN Resolved(answer.result)
                         ELSE Rejected(answer.err)

\* What the promise of doSelect settles with.
SelectResult(answer) ==
  IF answer.ok THEN Resolved(GetRows(answer.result))
               ELSE Rejected(answer.err)

\* doSelect: this.conn.query(sql, args).then(result => getRows(result))
DoSelect(sql, args, answer) ==
  /\ ConnQuery(sql, args, answer)
  /\ ret' = SelectResult(answer)

NullRow == "null"

\* Mutant: the last row instead of the first.
LastOrNull(rows) == IF Len(rows) = 0 THEN NullRow ELSE rows[Len(rows)]

\* rows[0] || null
FirstOrNull(rows) == IF Len(rows) = 0 THEN NullRow ELSE rows[1]

\* doSelectOne: this.doSelect(sql, args).then(rows => rows[0] || null)
DoSelectOne(sql, args, answer) ==
  /\ ConnQuery(sql, args, answer)
  /\ ret' = LET r == SelectResult(answer) IN
              IF r.kind = "resolve" THEN Resolved(FirstOrNull(r.val)) ELSE r

\* doInsert: this.conn.query(sql, args).then(r => getInfo(r).insertId)
DoInsert(sql, args, answer) ==
  /\ ConnQuery(sql, args, answer)
  /\ ret' = IF answer.ok THEN Resolved(GetInfo(answer.result).insertId)
                         ELSE Rejected(answer.err)

\* doUpdate: this.conn.query(sql, args).then(r => getInfo(r).affectedRows)
DoUpdate(sql, args, answer) ==
  /\ ConnQuery(sql, args, answer)
  /\ ret' = IF answer.ok THEN Resolved(GetInfo(answer.result).affectedRows)
                         ELSE Rejected(answer.err)

\* doDelete: this.conn.query(sql, args).then(r => getInfo(r).affectedRows)
DoDelete(sql, args, answer) ==
  /\ ConnQuery(sql, args, answer)
  /\ ret' = IF answer.ok THEN Resolved(GetInfo(answer.result).affectedRows)
                         ELSE Rejected(answer.err)

\* Objects are sequences of <<key, value>> with distinct string keys:
\* Reflect.ownKeys lists such keys in the order of their insertion.
Undefined == 0

Objects(K) ==
  {o \in SeqsUpTo(K \X Vals, Cardinality(K)) :
     \A m, n \in DOMAIN o : m # n => o[m][1] # o[n][1]}

OwnKeys(info) == [n \in DOMAIN info |-> info[n][1]]

\* info[key]
Get(info, key) ==
  IF \E n \in DOMAIN info : info[n][1] = key
    THEN info[CHOOSE n \in DOMAIN info : info[n][1] = key][2]
    ELSE Undefined

\* fields.map(key => info[key])
ValuesOf(info, keys) == [n \in DOMAIN keys |-> Get(info, keys[n])]

\* A list of strings as a list of one-token texts, for Join.
Tokens(names) == [n \in DOMAIN names |-> <<names[n]>>]

\* fields.map(field => '?')
Placeholders(fields) == [n \in DOMAIN fields |-> "?"]

\* The validation of updateOne: "ok", or the message of the Error thrown.
UpdateOneCheck(fields, values) ==
  IF Len(fields) = 0 THEN "no fields to update"
  ELSE IF Len(values) # Len(fields) THEN "values.length !== fields.length"
  ELSE "ok"

\* Mutant: updateOneByFields without the check of the where lists.
UpdateOneByFieldsCheckNoWhere(fields, values, whereFields, whereValues) ==
  UpdateOneCheck(fields, values)

\* The validation of updateOneByFields.
UpdateOneByFieldsCheck(fields, values, whereFields, whereValues) ==
  IF Len(fields) = 0 THEN "no fields to update"
  ELSE IF Len(values) # Len(fields) THEN "values.length !== fields.length"
  ELSE IF Len(whereFields) # Len(whereValues)
    THEN "where values.length !== where fields.length"
  ELSE "ok"

UpdateOneSql(table, fields) ==
  <<"UPDATE", table, "SET">> \o Join(Assignments(fields), ",")
    \o <<"WHERE", "id", "=", "?">>

UpdateOneByFieldsSql(table, fields, whereFields) ==
  <<"update", table, "set">> \o Join(Assignments(fields), ",")
    \o <<"where">> \o Join(Assignments(whereFields), "AND")

\* Mutant: the id bound first.
UpdateOneArgsIdFirst(values, id) == <<id>> \o values

\* values.concat(id)
UpdateOneArgs(values, id) == Append(values, id)

\* Mutant: the where-values bound first.
UpdateOneByFieldsArgsWhereFirst(values, whereValues) == whereValues \o values

\* values.concat(whereValues)
UpdateOneByFieldsArgs(values, whereValues) == values \o whereValues

\* The body of updateOne(table, id, fields, values).
UpdateOneWith(table, id, fields, values, answer) ==
  LET check == UpdateOneCheck(fields, values) IN
    IF check # "ok"
      THEN /\ ret' = Thrown(check)
           /\ UNCHANGED sent
      ELSE DoUpdate(UpdateOneSql(table, fields), UpdateOneArgs(values, id),
                    answer)

Called(op) == call.op = op /\ ret = Pending

UpdateOne(answer) ==
  /\ Called("updateOne")
  /\ UpdateOneWith(call.table, call.id, call.fields, call.values, answer)
  /\ UNCHANGED <<call, runVars, txVars>>

UpdateOneByFields(answer) ==
  /\ Called("updateOneByFields")
  /\ LET check == UpdateOneByFieldsCheck(call.fields, call.values,
                                         call.whereFields, call.whereValues)
     IN
       IF check # "ok"
         THEN /\ ret' = Thrown(check)
              /\ UNCHANGED sent
         ELSE DoUpdate(UpdateOneByFieldsSql(call.table, call.fields,
                                            call.whereFields),
                       UpdateOneByFieldsArgs(call.values, call.whereValues),
                       answer)
  /\ UNCHANGED <<call, runVars, txVars>>

\* Mutant: every own key goes to the SET clause.
UpdatableKeysAll(info) == OwnKeys(info)

\* The keys updateOneObject keeps: all but id, ctime and mtime.
UpdatableKeys(info) ==
  SelectSeq(OwnKeys(info), LAMBDA key : key \notin {"id", "ctime", "mtime"})

UpdateOneObject(answer) ==
  /\ Called("updateOneObject")
  /\ LET fields == UpdatableKeys(call.info) IN
       UpdateOneWith(call.table, Get(call.info, "id"), fields,
                     ValuesOf(call.info, fields), answer)
  /\ UNCHANGED <<call, runVars, txVars>>

\* ---- select
SelectAllSql(table) == <<"SELECT", "*", "FROM", table>>

SelectManyByFieldSql(table, field) ==
  <<"SELECT", "*", "FROM", table, "WHERE", field, "=", "?">>

SelectManyByFieldsSql(table, fields) ==
  <<"SELECT", "*", "FROM", table, "WHERE">>
    \o Join(Assignments(fields), "AND")

SelectOneByFieldSql(table, field) ==
  <<"SELECT", "*", "FROM", table, "WHERE", field, "=", "?", "LIMIT", "1">>

SelectOneByFieldsSql(table, fields) ==
  <<"SELECT", "*", "FROM", table, "WHERE">>
    \o Join(Assignments(fields), "AND") \o <<"LIMIT", "1">>

SelectOneByFieldWith(table, field, value, answer) ==
  DoSelectOne(SelectOneByFieldSql(table, field), <<value>>, answer)

SelectOneByFieldsWith(table, fields, values, answer) ==
  DoSelectOne(SelectOneByFieldsSql(table, fields), values, answer)

SelectAll(answer) ==
  /\ Called("selectAll")
  /\ DoSelect(SelectAllSql(call.table), <<>>, answer)
  /\ UNCHANGED <<call, runVars, txVars>>

SelectManyByField(answer) ==
  /\ Called("selectManyByField")
  /\ DoSelect(SelectManyByFieldSql(call.table, call.field), <<call.value>>,
              answer)
  /\ UNCHANGED <<call, runVars, txVars>>

SelectManyByFields(answer) ==
  /\ Called("selectManyByFields")
  /\ DoSelect(SelectManyByFieldsSql(call.table, call.fields), call.values,
              answer)
  /\ UNCHANGED <<call, runVars, txVars>>

SelectOneByField(answer) ==
  /\ Called("selectOneByField")
  /\ SelectOneByFieldWith(call.table, call.field, call.value, answer)
  /\ UNCHANGED <<call, runVars, txVars>>

SelectById(answer) ==
  /\ Called("selectById")
  /\ SelectOneByFieldWith(call.table, "id", call.id, answer)
  /\ UNCHANGED <<call, runVars, txVars>>

SelectOneByFields(answer) ==
  /\ Called("selectOneByFields")
  /\ SelectOneByFieldsWith(call.table, call.fields, call.values, answer)
  /\ UNCHANGED <<call, runVars, txVars>>

SelectOneByObject(answer) ==
  /\ Called("selectOneByObject")
  /\ LET fields == OwnKeys(call.info) IN
       SelectOneByFieldsWith(call.table, fields, ValuesOf(call.info, fields),
                             answer)
  /\ UNCHANGED <<call, runVars, txVars>>

\* ---- insert
InsertOneSql(table, fields) ==
  <<"INSERT", "INTO", table, "(">> \o Join(Tokens(fields), ",")
    \o <<")", "VALUES", "(">> \o Join(Tokens(Placeholders(fields)), ",")
    \o <<")">>

InsertOneWith(table, fields, values, answer) ==
  DoInsert(InsertOneSql(table, fields), values, answer)

InsertOne(answer) ==
  /\ Called("insertOne")
  /\ InsertOneWith(call.table, call.fields, call.values, answer)
  /\ UNCHANGED <<call, runVars, txVars>>

InsertOneObject(answer) ==
  /\ Called("insertOneObject")
  /\ LET fields == OwnKeys(call.info) IN
       InsertOneWith(call.table, fields, ValuesOf(call.info, fields), answer)
  /\ UNCHANGED <<call, runVars, txVars>>

\* One value tuple per element of list, each `(?, ..., ?)` with one
\* placeholder per field.
InsertManySql(table, fields, list) ==
  LET fs == <<"(">> \o Join(Tokens(fields), ",") \o <<")">>
      vs == <<"(">> \o Join(Tokens(Placeholders(fields)), ",") \o <<")">>
  IN  <<"INSERT", "INTO", table>> \o fs \o <<"VALUES">>
        \o Join([i \in DOMAIN list |-> vs], ",")

\* Mutant: the rows concatenated last row first.
RECURSIVE FlattenReversed(_)
FlattenReversed(list) ==
  IF Len(list) = 0 THEN <<>>
  ELSE FlattenReversed(Tail(list)) \o Head(list)

\* [].concat.apply([], list)
RECURSIVE Flatten(_)
Flatten(list) ==
  IF Len(list) = 0 THEN <<>> ELSE Head(list) \o Flatten(Tail(list))

InsertManyWith(table, fields, list, answer) ==
  DoInsert(InsertManySql(table, fields, list), Flatten(list), answer)

InsertMany(answer) ==
  /\ Called("insertMany")
  /\ InsertManyWith(call.table, call.fields, call.list, answer)
  /\ UNCHANGED <<call, runVars, txVars>>

\* Reflect.ownKeys(objects[0]) throws a TypeError when objects is empty:
\* objects[0] is undefined.
InsertManyObjects(answer) ==
  /\ Called("insertManyObjects")
  /\ IF Len(call.objects) = 0
       THEN /\ ret' = Thrown("TypeError")
            /\ UNCHANGED sent
       ELSE LET fields == OwnKeys(call.objects[1])
                list == [n \in DOMAIN call.objects |->
                           ValuesOf(call.objects[n], fields)]
            IN  InsertManyWith(call.table, fields, list, answer)
  /\ UNCHANGED <<call, runVars, txVars>>

\* ---- delete
DeleteByFieldSql(table, field) ==
  <<"DELETE", "FROM", table, "WHERE", field, "=", "?">>

DeleteByFieldWith(table, field, value, answer) ==
  DoDelete(DeleteByFieldSql(table, field), <<value>>, answer)

DeleteByField(answer) ==
  /\ Called("deleteByField")
  /\ DeleteByFieldWith(call.table, call.field, call.value, answer)
  /\ UNCHANGED <<call, runVars, txVars>>

DeleteById(answer) ==
  /\ Called("deleteById")
  /\ DeleteByFieldWith(call.table, "id", call.id, answer)
  /\ UNCHANGED <<call, runVars, txVars>>

\* ---- the execute primitives called with a statement of the caller
RawSql == {<<"SELECT", "1">>, <<"DELETE", "FROM", "t", "WHERE", "a", "=", "?">>}
RawArgs == {<<>>, <<1>>}

RawQuery(answer) ==
  /\ Called("query")
  /\ DoQuery(call.sql, call.args, answer)
  /\ UNCHANGED <<call, runVars, txVars>>

RawSelect(answer) ==
  /\ Called("doSelect")
  /\ DoSelect(call.sql, call.args, answer)
  /\ UNCHANGED <<call, runVars, txVars>>

RawSelectOne(answer) ==
  /\ Called("doSelectOne")
  /\ DoSelectOne(call.sql, call.args, answer)
  /\ UNCHANGED <<call, runVars, txVars>>

RawInsert(answer) ==
  /\ Called("doInsert")
  /\ DoInsert(call.sql, call.args, answer)
  /\ UNCHANGED <<call, runVars, txVars>>

RawUpdate(answer) ==
  /\ Called("doUpdate")
  /\ DoUpdate(call.sql, call.args, answer)
  /\ UNCHANGED <<call, runVars, txVars>>

RawDelete(answer) ==
  /\ Called("doDelete")
  /\ DoDelete(call.sql, call.args, answer)
  /\ UNCHANGED <<call, runVars, txVars>>

\* The calls of the query builders: method and arguments.
UpdateOneCalls ==
  [op : {"updateOne"}, table : Tables, id : Ids,
   fields : SeqsUpTo(FieldNames, MaxFields),
   values : SeqsUpTo(Vals, MaxFields)]

UpdateOneByFieldsCalls ==
  [op : {"updateOneByFields"}, table : Tables,
   fields : SeqsUpTo(FieldNames, MaxFields),
   values : SeqsUpTo(Vals, MaxFields),
   whereFields : SeqsUpTo(FieldNames, MaxFields),
   whereValues : SeqsUpTo(Vals, MaxFields)]

UpdateOneObjectCalls ==
  [op : {"updateOneObject"}, table : Tables,
   info : Objects(FieldNames \cup {"id", "ctime", "mtime"})]

TableCalls == [op : {"selectAll"}, table : Tables]

ByFieldCalls ==
  [op : {"selectManyByField", "selectOneByField", "deleteByField"},
   table : Tables, field : FieldNames, value : Vals]

ByIdCalls == [op : {"selectById", "deleteById"}, table : Tables, id : Ids]

\* No length validation here: the lists may differ in length.
ByFieldsCalls ==
  [op : {"selectManyByFields", "selectOneByFields", "insertOne"},
   table : Tables,
   fields : SeqsUpTo(FieldNames, MaxFields),
   values : SeqsUpTo(Vals, MaxFields)]

ByObjectCalls ==
  [op : {"selectOneByObject", "insertOneObject"}, table : Tables,
   info : Objects(FieldNames)]

\* insertMany with up to MaxRows rows, each of one value per field.
InsertManyCalls ==
  UNION {[op : {"insertMany"}, table : Tables, fields : {fields},
          list : SeqsUpTo([DOMAIN fields -> Vals], MaxRows)] :
           fields \in SeqsUpTo(FieldNames, MaxFields)}

InsertManyObjectsCalls ==
  [op : {"insertManyObjects"}, table : Tables,
   objects : SeqsUpTo(Objects(FieldNames), MaxObjects)]

RawCalls ==
  [op : {"query", "doSelect", "doSelectOne", "doInsert", "doUpdate",
         "doDelete"},
   sql : RawSql, args : RawArgs]

CrudCalls ==
  UpdateOneCalls \cup UpdateOneByFieldsCalls \cup UpdateOneObjectCalls
    \cup TableCalls \cup ByFieldCalls \cup ByIdCalls \cup ByFieldsCalls
    \cup ByObjectCalls \cup InsertManyCalls \cup InsertManyObjectsCalls
    \cup RawCalls

\* One call of a method of a Connection, with arguments of every shape.
InitCrudCall ==
  /\ InitRun
  /\ InitTx
  /\ call \in CrudCalls
  /\ ret = Pending
  /\ sent = <<>>

NextCrud ==
  \/ \E a \in DriverAnswers : UpdateOne(a)
  \/ \E a \in DriverAnswers : UpdateOneByFields(a)
  \/ \E a \in DriverAnswers : UpdateOneObject(a)
  \/ \E a \in SelectAnswers : SelectAll(a)
  \/ \E a \in SelectAnswers : SelectManyByField(a)
  \/ \E a \in SelectAnswers : SelectManyByFields(a)
  \/ \E a \in SelectAnswers : SelectOneByField(a)
  \/ \E a \in SelectAnswers : SelectById(a)
  \/ \E a \in SelectAnswers : SelectOneByFields(a)
  \/ \E a \in SelectAnswers : SelectOneByObject(a)
  \/ \E a \in DriverAnswers : InsertOne(a)
  \/ \E a \in DriverAnswers : InsertOneObject(a)
  \/ \E a \in DriverAnswers : InsertMany(a)
  \/ \E a \in DriverAnswers : InsertManyObjects(a)
  \/ \E a \in DriverAnswers : DeleteByField(a)
  \/ \E a \in DriverAnswers : DeleteById(a)
  \/ \E a \in DriverAnswers : RawQuery(a)
  \/ \E a \in SelectAnswers : RawQuery(a)
  \/ \E a \in SelectAnswers : RawSelect(a)
  \/ \E a \in SelectAnswers : RawSelectOne(a)
  \/ \E a \in DriverAnswers : RawInsert(a)
  \/ \E a \in DriverAnswers : RawUpdate(a)
  \/ \E a \in DriverAnswers : RawDelete(a)

SpecCrud == InitCrudCall /\ [][NextCrud]_vars

\* ------------------------------------------------- claims: with-connection
\* The invocations that hold a checked-out session.
Held ==
  {i \in Invs : pc[i] \in {"acquired", "fn", "uow", "commit", "rollback",
                            "txdone", "finally"}}

\* The sessions the pools count as checked out.
AllOut == {c \in Pools \X Sessions : c[2] \in checkedOut[c[1]]}

CheckoutErrors ==
  {Rejected("NotConnected"), Rejected("PoolError"), Rejected("TypeError")}

\* C1: an invocation whose checkout succeeded calls release() exactly once,
\* and only once the wrapped function has resolved, rejected or thrown: not
\* while it holds the session with the function pending, once when it is
\* done.
C1_ReleaseExactlyOnce ==
  \A i \in Invs :
    /\ rel[i] <= 1
    /\ rel[i] = 1 => (calls[i] = 1 /\ outcome[i].kind # "pending")
    /\ i \in Held => rel[i] = 0
    /\ (pc[i] = "done" /\ outcome[i] \notin CheckoutErrors) => rel[i] = 1

\* Reached: one invocation released after a synchronous throw, another
\* after a rejection.
C1_Witness ==
  \E i, j \in Invs :
    /\ pc[i] = "done" /\ outcome[i] = Rejected("ThrownError") /\ rel[i] = 1
    /\ pc[j] = "done" /\ outcome[j] = Rejected("AppError") /\ rel[j] = 1

\* C2: the sessions checked out of the pools are exactly the sessions of
\* the invocations that acquired and have not released, one each; when no
\* invocation is in flight, none is checked out.
C2_NoLeak ==
  /\ AllOut = {conn[i] : i \in Held}
  /\ Cardinality(AllOut) = Cardinality(Held)
  /\ (\A i \in Invs : pc[i] \in {"idle", "done"}) => AllOut = {}

\* Reached: every invocation has checked out, run and released.
C2_Witness ==
  /\ \A i \in Invs : pc[i] = "done" /\ rel[i] = 1
  /\ AllOut = {}

\* C10: no two invocations in flight hold the same session, and every
\* statement on a session was issued by the invocation that holds it, after
\* its function was called, while the pool counts the session checked out.
C10_ExclusiveSession ==
  /\ \A i, j \in Held : i # j => conn[i] # conn[j]
  /\ \A c \in Pools \X Sessions :
       \A n \in DOMAIN LogOf(c) :
         /\ c \in AllOut
         /\ LogOf(c)[n].by \in Held
         /\ conn[LogOf(c)[n].by] = c
         /\ calls[LogOf(c)[n].by] = 1

\* Reached: two invocations in flight on one pool, each with a statement
\* on its own session.
C10_Witness ==
  \E i, j \in Held :
    /\ i # j
    /\ conn[i][1] = conn[j][1]
    /\ N(i, "q") = 1
    /\ N(j, "q") = 1

\* C8: getPool() fails with the not-connected error exactly when no pool
\* was ever set and otherwise returns the pool of the latest init(); a
\* wrapper invoked before init() ends at once with the not-connected error,
\* no session is checked out, the function is not called, release() is not
\* called.
C8_GetPoolState ==
  /\ created = 0 => GetPool = [err |-> "NotConnected", pool |-> Null]
  /\ created > 0 => GetPool = [err |-> "none", pool |-> created]
  /\ \A i \in Invs :
       outcome[i] = Rejected("NotConnected") =>
         (pc[i] = "done" /\ calls[i] = 0 /\ rel[i] = 0 /\ conn[i] = NoConn)

C8_InvokeStep ==
  \A i \in Invs :
    (pc[i] = "idle" /\ pc'[i] # "idle") =>
      IF created = 0
        THEN /\ pc'[i] = "done"
             /\ outcome'[i] = Rejected("NotConnected")
             /\ checkedOut' = checkedOut
        ELSE /\ pc'[i] = "acquiring"
             /\ req'[i] = created

C8_NotConnected == [](C8_GetPoolState) /\ [][C8_InvokeStep]_vars

\* Reached: one invocation failed before init(), another awaits a session
\* of the second pool.
C8_Witness ==
  \E i, j \in Invs :
    /\ outcome[i] = Rejected("NotConnected")
    /\ calls[i] = 0
    /\ created = 2
    /\ req[j] = 2

\* --------------------------------------------------- claims: transactions
\* The statements on the session of the transaction's Connection.
TxLog == LogOf(conn[T])

\* doTransaction has returned or raised (the session is not yet released).
Returned == pc[T] \in {"txdone", "finally"}

BeginOk == \E n \in At(T, "BEGIN") : TxLog[n].ok
BeginFailed == \E n \in At(T, "BEGIN") : ~TxLog[n].ok
CommitOk == \E n \in At(T, "COMMIT") : TxLog[n].ok

\* The session: a transaction is open after a successful BEGIN until a
\* successful COMMIT or ROLLBACK.
TxOpen(log) ==
  \E n \in DOMAIN log :
    /\ log[n].k = "BEGIN" /\ log[n].ok
    /\ \A m \in DOMAIN log :
         m > n => ~(log[m].k \in {"COMMIT", "ROLLBACK"} /\ log[m].ok)

\* C3 as stated: when the unit of work completed normally, COMMIT was issued
\* exactly once and ROLLBACK never, whatever the outcome of COMMIT.
C3_CommitNoRollback ==
  (Returned /\ uowRes[T].kind = "resolve") =>
    (N(T, "COMMIT") = 1 /\ N(T, "ROLLBACK") = 0)

\* C3 amended: when the unit of work completed normally, COMMIT is issued
\* exactly once; no ROLLBACK is issued when COMMIT succeeds, and exactly one
\* ROLLBACK, after the COMMIT, when COMMIT fails.
C3_CommitOnce ==
  uowRes[T].kind = "resolve" =>
    /\ N(T, "COMMIT") <= 1
    /\ N(T, "ROLLBACK") <= 1
    /\ \A r \in At(T, "ROLLBACK") : \A c \in At(T, "COMMIT") : c < r
    /\ CommitOk => N(T, "ROLLBACK") = 0
    /\ Returned =>
         /\ N(T, "COMMIT") = 1
         /\ N(T, "ROLLBACK") = (IF CommitOk THEN 0 ELSE 1)

\* Reached: the unit of work completed, COMMIT succeeded, the call returned.
C3_Witness ==
  /\ Returned
  /\ uowRes[T].kind = "resolve"
  /\ CommitOk
  /\ N(T, "q") = 1
  /\ N(T, "ROLLBACK") = 0

\* C4: when the unit of work raised a RollbackError, ROLLBACK was issued
\* exactly once, COMMIT never, and the call resolves with undefined.
C4_SentinelSwallowed ==
  (Returned /\ uowRes[T] = Rejected("RollbackError")) =>
    /\ N(T, "ROLLBACK") = 1
    /\ N(T, "COMMIT") = 0
    /\ txRes[T] = Resolved("undefined")

\* C5: when the unit of work raised an error that is no RollbackError,
\* ROLLBACK was issued exactly once, COMMIT never, and the call raises the
\* error of the unit of work.
C5_OriginalErrorRaised ==
  (Returned /\ uowRes[T].kind = "reject"
            /\ ~IsRollbackError(uowRes[T].val)) =>
    /\ N(T, "ROLLBACK") = 1
    /\ N(T, "COMMIT") = 0
    /\ txRes[T] = Rejected(uowRes[T].val)

\* C6: when BEGIN fails, the call raises the failure of BEGIN, the unit of
\* work is not invoked and neither COMMIT nor ROLLBACK is issued.
C6_BeginFailurePropagates ==
  /\ BeginFailed =>
       /\ Returned
       /\ txRes[T] = Rejected("DriverError:BEGIN")
       /\ uowRes[T] = NotRun
       /\ N(T, "COMMIT") = 0
       /\ N(T, "ROLLBACK") = 0
       /\ Len(TxLog) = 1
  /\ txRes[T] = Rejected("DriverError:BEGIN") => uowRes[T] = NotRun
  /\ uowRes[T] # NotRun => BeginOk \/ pc[T] = "done"

\* Reached: BEGIN failed and the wrapped function has passed the failure on.
C6_Witness ==
  /\ BeginFailed
  /\ pc[T] = "finally"
  /\ outcome[T] = Rejected("DriverError:BEGIN")

\* C7 as stated: when a call that passed BEGIN returns or raises, the
\* session has no open transaction.
C7_NoOpenTransaction ==
  (Returned /\ BeginOk) => ~TxOpen(TxLog)

\* C7 amended: when a call that passed BEGIN returns or raises, its last
\* statement is a successful COMMIT or a ROLLBACK, a ROLLBACK whenever the
\* unit of work raised an error or COMMIT failed; the transaction is still
\* open only when that ROLLBACK statement itself failed.
C7_EndsWithCommitOrRollback ==
  (Returned /\ BeginOk) =>
    LET last == TxLog[Len(TxLog)] IN
      /\ last.k \in {"COMMIT", "ROLLBACK"}
      /\ last.k = "COMMIT" => last.ok
      /\ TxOpen(TxLog) <=> ~last.ok
      /\ (uowRes[T].kind = "reject" \/ ~CommitOk) => last.k = "ROLLBACK"
      /\ uowRes[T].kind = "reject" => N(T, "COMMIT") = 0

\* Reached: the unit of work raised an error, ROLLBACK succeeded, the call
\* raised, and no transaction is open.
C7_Witness ==
  /\ Returned
  /\ BeginOk
  /\ uowRes[T] = Rejected("AppError")
  /\ txRes[T] = Rejected("AppError")
  /\ ~TxOpen(TxLog)

RollbackFailed == \E n \in At(T, "ROLLBACK") : ~TxLog[n].ok

\* C15: when the unit of work raised an error that is no RollbackError and
\* the ROLLBACK issued for it failed too, the call raises the error of the
\* unit of work, not the failure of ROLLBACK.
C15_RollbackFailureNotSurfaced ==
  (Returned /\ RollbackFailed /\ uowRes[T].kind = "reject"
            /\ ~IsRollbackError(uowRes[T].val)) =>
    /\ txRes[T].kind = "reject"
    /\ txRes[T].val = uowRes[T].val
    /\ txRes[T].val # "DriverError:ROLLBACK"

\* C16: the result of the unit of work is returned only after a successful
\* COMMIT; when COMMIT fails after the unit of work completed, no result is
\* returned, one ROLLBACK follows the failed COMMIT, and the call raises the
\* failure of COMMIT.
C16_CommitFailureRaised ==
  /\ txRes[T].kind = "resolve" /\ uowRes[T].kind = "resolve" /\ Returned
       => CommitOk
  /\ (Returned /\ uowRes[T].kind = "resolve" /\ ~CommitOk) =>
       /\ N(T, "ROLLBACK") = 1
       /\ \A r \in At(T, "ROLLBACK") : \A c \in At(T, "COMMIT") : c < r
       /\ txRes[T] = Rejected("DriverError:COMMIT")

\* The statements of a transaction in their order: BEGIN first, then the
\* statements of the unit of work, then COMMIT, then ROLLBACK.
Rank(k) ==
  CASE k = "BEGIN" -> 1
    [] k = "q" -> 2
    [] k = "COMMIT" -> 3
    [] k = "ROLLBACK" -> 4

C17_Ordered ==
  /\ \A m, n \in DOMAIN TxLog : m < n => Rank(TxLog[m].k) < Rank(TxLog[n].k)
                                         \/ (TxLog[m].k = "q" /\ TxLog[n].k = "q")
  /\ Len(TxLog) > 0 => (TxLog[1].k = "BEGIN" /\ conn[T] \in AllOut)
  /\ pc[T] \in {"uow", "commit", "rollback", "txdone"} => rel[T] = 0

C17_ReleaseStep ==
  rel'[T] # rel[T] =>
    /\ rel[T] = 0 /\ rel'[T] = 1
    /\ Len(TxLog) > 0 => pc[T] = "finally" /\ outcome[T] = txRes[T]
    /\ BeginOk =>
         /\ TxLog[Len(TxLog)].k \in {"COMMIT", "ROLLBACK"}
         /\ txRes[T].kind # "pending"

\* C17: on the session of a wrapped function that returns the promise of
\* its doTransaction, the statements come in the order BEGIN, unit of work,
\* COMMIT or ROLLBACK, and release() comes after the COMMIT or ROLLBACK was
\* issued, on every path.
C17_TransactionBeforeRelease == [](C17_Ordered) /\ [][C17_ReleaseStep]_vars

\* Reached: the unit of work issued a statement and raised the sentinel,
\* ROLLBACK was issued, the session is about to be released.
C17_Witness ==
  /\ pc[T] = "finally"
  /\ uowRes[T] = Rejected("RollbackError")
  /\ N(T, "q") = 1
  /\ TxLog[Len(TxLog)].k = "ROLLBACK"
  /\ conn[T] \in AllOut

\* ------------------------------------------------ claims: checkout, pools
C18_Rejected ==
  \A i \in Invs :
    outcome[i] = Rejected("PoolError") =>
      /\ pc[i] = "done"
      /\ calls[i] = 0
      /\ rel[i] = 0
      /\ conn[i] = NoConn

C18_FailStep ==
  \A i \in Invs :
    (pc[i] = "acquiring" /\ pc'[i] = "done") =>
      /\ outcome'[i] = Rejected("PoolError")
      /\ calls'[i] = 0
      /\ rel'[i] = 0
      /\ checkedOut' = checkedOut

\* C18: when the checkout fails the wrapper rejects with the error of the
\* pool, the wrapped function is never invoked, release() is never called
\* and the pool's set of checked-out sessions is left as it was.
C18_CheckoutFailure == [](C18_Rejected) /\ [][C18_FailStep]_vars

\* Reached: one invocation failed to check out while another holds a
\* session of the same pool.
C18_Witness ==
  \E i, j \in Invs :
    /\ outcome[i] = Rejected("PoolError")
    /\ j \in Held
    /\ conn[j] \in AllOut

C19_Step ==
  \A i \in Invs :
    /\ (pc[i] = "idle" /\ pc'[i] = "acquiring") =>
         (req'[i] = pool /\ pool = created)
    /\ (pc[i] = "acquiring" /\ pc'[i] = "acquired") =>
         /\ conn'[i][1] = req[i]
         /\ conn'[i][2] \notin checkedOut[req[i]]
         /\ checkedOut' =
              [checkedOut EXCEPT ![req[i]] = @ \cup {conn'[i][2]}]
    /\ rel'[i] # rel[i] =>
         /\ conn[i][2] \in checkedOut[conn[i][1]]
         /\ checkedOut' =
              [checkedOut EXCEPT ![conn[i][1]] = @ \ {conn[i][2]}]

\* C19: the wrapper reads the holder's pool at each invocation, so an
\* invocation made after a later init checks out from the newest pool, and
\* every invocation releases its session to the pool it was checked out
\* from.
C19_PoolPerInvocation == [][C19_Step]_vars

\* Reached: after a second init, one invocation is about to release a
\* session of the first pool while another holds one of the second.
C19_Witness ==
  \E i, j \in Invs :
    /\ pool = 2 /\ created = 2
    /\ pc[i] = "finally" /\ conn[i][1] = 1
    /\ j \in Held /\ conn[j][1] = 2

\* ------------------------------------------------- claims: query builders
NoFieldsToUpdate == Thrown("no fields to update")
ArgumentCountMismatch ==
  {Thrown("values.length !== fields.length"),
   Thrown("where values.length !== where fields.length")}

\* C9: updateOne and updateOneByFields throw NoFieldsToUpdate when the
\* field list is empty (checked first), ArgumentCountMismatch when the value
\* list, or for updateOneByFields the where-value list, differs in length
\* from its field list; whenever they throw, no statement was sent, and
\* otherwise exactly one was.
C9_ValidationBeforeSql ==
  (call.op \in {"updateOne", "updateOneByFields"} /\ ret # Pending) =>
    LET whereBad == /\ call.op = "updateOneByFields"
                    /\ Len(call.whereFields) # Len(call.whereValues)
    IN
      /\ Len(call.fields) = 0 => ret = NoFieldsToUpdate
      /\ (Len(call.fields) > 0 /\ Len(call.values) # Len(call.fields))
           => ret = Thrown("values.length !== fields.length")
      /\ (Len(call.fields) > 0 /\ Len(call.values) = Len(call.fields)
            /\ whereBad)
           => ret = Thrown("where values.length !== where fields.length")
      /\ ret.kind = "throw" <=>
           \/ Len(call.fields) = 0
           \/ Len(call.values) # Len(call.fields)
           \/ whereBad
      /\ ret.kind = "throw" => sent = <<>>
      /\ ret.kind # "throw" => Len(sent) = 1

\* Reached: updateOneByFields threw for its where lists, nothing was sent.
C9_Witness ==
  /\ call.op = "updateOneByFields"
  /\ Len(call.fields) = 2
  /\ Len(call.values) = 2
  /\ Len(call.whereFields) = 1
  /\ Len(call.whereValues) = 2
  /\ ret \in ArgumentCountMismatch
  /\ sent = <<>>

\* How often a token occurs in a statement.
Count(sql, tok) == Cardinality({n \in DOMAIN sql : sql[n] = tok})

\* Where a keyword stands in a statement.
IndexOf(sql, tok) == CHOOSE n \in DOMAIN sql : sql[n] = tok

Settled == ret.kind # "pending"

\* C11: insertMany with k fields and n rows of k values sends one statement
\* whose VALUES part is n tuples of k placeholders, with the rows, in row
\* order and each in field order, as its arguments: n*k placeholders and
\* n*k arguments.
C11_InsertManyTuples ==
  (call.op = "insertMany" /\ Settled) =>
    /\ Len(sent) = 1
    /\ LET k == Len(call.fields)
           n == Len(call.list)
           sql == sent[1].sql
           args == sent[1].args
           v == SubSeq(sql, IndexOf(sql, "VALUES") + 1, Len(sql))
           width == IF k = 0 THEN 2 ELSE 2 * k + 1
       IN
         /\ Count(sql, "VALUES") = 1
         /\ Count(v, "(") = n /\ Count(v, ")") = n
         /\ \A p \in DOMAIN v : v[p] = "(" =>
              /\ v[p + width - 1] = ")"
              /\ Count(SubSeq(v, p, p + width - 1), "?") = k
         /\ Count(sql, "?") = n * k
         /\ Len(args) = n * k
         /\ \A i \in 1..n : \A j \in 1..k :
              args[(i - 1) * k + j] = call.list[i][j]

\* Reached: insertMany('t', ['a'], [[1], [2], [1]]) sent three tuples with
\* the arguments [1, 2, 1].
C11_Witness ==
  /\ call.op = "insertMany"
  /\ call.fields = <<"a">>
  /\ call.list = << <<1>>, <<2>>, <<1>> >>
  /\ Len(sent) = 1
  /\ sent[1].sql = <<"INSERT", "INTO", "t", "(", "a", ")", "VALUES",
                     "(", "?", ")", ",", "(", "?", ")", ",", "(", "?", ")">>
  /\ sent[1].args = <<1, 2, 1>>

\* The fields of the SET clause of an UPDATE ... SET f = ?, ... WHERE ...
SetFields(sql) ==
  [n \in 1..((IndexOf(sql, "WHERE") - 3) \div 4) |-> sql[4 * n]]

KeyIndex(info, key) == CHOOSE n \in DOMAIN info : info[n][1] = key

\* C12: updateOneObject names in the SET clause the own keys of info other
\* than id, ctime and mtime, each once and in the order of info, binds their
\* values in that order and info.id last, for WHERE id = ?; with no such key
\* it throws and sends nothing.
C12_UpdateOneObjectSet ==
  (call.op = "updateOneObject" /\ Settled) =>
    LET info == call.info
        keys == {info[n][1] : n \in DOMAIN info} \ {"id", "ctime", "mtime"}
    IN
      IF keys = {}
        THEN ret.kind = "throw" /\ sent = <<>>
        ELSE
          /\ Len(sent) = 1
          /\ LET sql == sent[1].sql
                 args == sent[1].args
                 fs == SetFields(sql)
             IN
               /\ {fs[n] : n \in DOMAIN fs} = keys
               /\ Len(fs) = Cardinality(keys)
               /\ \A m, n \in DOMAIN fs :
                    m < n => KeyIndex(info, fs[m]) < KeyIndex(info, fs[n])
               /\ Len(args) = Len(fs) + 1
               /\ \A n \in DOMAIN fs : args[n] = info[KeyIndex(info, fs[n])][2]
               /\ args[Len(args)] = Get(info, "id")
               /\ SubSeq(sql, IndexOf(sql, "WHERE"), Len(sql))
                    = <<"WHERE", "id", "=", "?">>
               /\ Len(sql) = 4 * Len(fs) + 6

\* Reached: an object with id, ctime and mtime between two other keys was
\* updated.
C12_Witness ==
  /\ call.op = "updateOneObject"
  /\ call.info = << <<"b", 2>>, <<"id", 1>>, <<"ctime", 1>>, <<"a", 1>>,
                    <<"mtime", 2>> >>
  /\ Len(sent) = 1
  /\ sent[1].sql = <<"UPDATE", "t", "SET", "b", "=", "?", ",", "a", "=", "?",
                     "WHERE", "id", "=", "?">>
  /\ sent[1].args = <<2, 1, 1>>
  /\ ret.kind = "resolve"

SelectOneOps ==
  {"doSelectOne", "selectOneByField", "selectOneByFields", "selectById",
   "selectOneByObject"}

\* C13: doSelectOne, selectOneByField, selectOneByFields, selectById and
\* selectOneByObject resolve with the first row of the rows the driver
\* answered, and with null when it answered no row.
C13_FirstRowOrNull ==
  (call.op \in SelectOneOps /\ Settled /\ sent[1].ans.ok) =>
    LET rows == sent[1].ans.result[1] IN
      /\ ret.kind = "resolve"
      /\ Len(rows) > 0 => ret.val = rows[1]
      /\ Len(rows) = 0 => ret.val = "null"

\* Reached: selectOneByObject got two rows and returned the first.
C13_Witness ==
  /\ call.op = "selectOneByObject"
  /\ Len(call.info) = 2
  /\ Len(sent) = 1
  /\ sent[1].ans.ok
  /\ sent[1].ans.result[1] = <<"r2", "r1">>
  /\ ret.kind = "resolve"
  /\ ret.val = "r2"

ValidationFailed ==
  /\ ret.kind = "throw"
  /\ ret.val \in {"no fields to update", "values.length !== fields.length",
                  "where values.length !== where fields.length"}

\* C14: every call of a method of Connection that passed the method's
\* validation sent exactly one statement, and when the driver failed that
\* statement the call rejects with the driver's error.
C14_OneStatementPerCall ==
  (Settled /\ ~ValidationFailed) =>
    /\ Len(sent) = 1
    /\ ~sent[1].ans.ok => (ret.kind = "reject" /\ ret.val = sent[1].ans.err)

\* C20: updateOne and updateOneByFields, past their validation, send as
\* many placeholders as arguments; the arguments are the SET values in field
\* order, then the id, respectively the where-values in where-field order.
C20_UpdateArguments ==
  (call.op \in {"updateOne", "updateOneByFields"} /\ Settled
     /\ ret.kind # "throw") =>
    /\ Len(sent) = 1
    /\ Count(sent[1].sql, "?") = Len(sent[1].args)
    /\ call.op = "updateOne" =>
         /\ Len(sent[1].args) = Len(call.values) + 1
         /\ SubSeq(sent[1].args, 1, Len(call.values)) = call.values
         /\ sent[1].args[Len(call.values) + 1] = call.id
         /\ SetFields(sent[1].sql) = call.fields
    /\ call.op = "updateOneByFields" =>
         /\ Len(sent[1].args) = Len(call.values) + Len(call.whereValues)
         /\ SubSeq(sent[1].args, 1, Len(call.values)) = call.values
         /\ SubSeq(sent[1].args, Len(call.values) + 1, Len(sent[1].args))
              = call.whereValues
         /\ Count(sent[1].sql, "?")
              = Len(call.fields) + Len(call.whereFields)

\* Reached: updateOneByFields('t', ['b', 'a'], [2, 1], ['a'], [2]) was sent;
\* updateOne is reached with the same shape of state.
C20_Witness ==
  /\ call.op = "updateOneByFields"
  /\ call.fields = <<"b", "a">>
  /\ call.values = <<2, 1>>
  /\ call.whereFields = <<"a">>
  /\ call.whereValues = <<2>>
  /\ Len(sent) = 1
  /\ sent[1].sql = <<"update", "t", "set", "b", "=", "?", ",", "a", "=", "?",
                     "where", "a", "=", "?">>
  /\ sent[1].args = <<2, 1, 2>>

====
